---------------------------- MODULE Spec2Model ----------------------------
(***************************************************************************)
(* A model of the BikramSambat date entity of nepali-date-picker:          *)
(* construction, copying, the add* arithmetic, string conversion and the   *)
(* AD <-> BS conversion.                                                   *)
(*                                                                         *)
(* JavaScript values that a date field can hold are modelled as records    *)
(* [t, n]: a number [t |-> "num", n |-> k], NaN, or undefined.  A thrown   *)
(* TypeError / lookup failure is the value Thrown.                         *)
(***************************************************************************)
EXTENDS Integers, Sequences, FiniteSets

---------------------------------------------------------------------------
(* JavaScript values *)

Num(k)     == [t |-> "num", n |-> k]
NaN        == [t |-> "NaN", n |-> 0]
Undefined  == [t |-> "undefined", n |-> 0]
Thrown     == [t |-> "throw", n |-> 0]

IsNum(v)   == v.t = "num"

\* a + b on values: a number when both are numbers, NaN otherwise
Add(a, b)  == IF IsNum(a) /\ IsNum(b) THEN Num(a.n + b.n) ELSE NaN
Sub(a, b)  == IF IsNum(a) /\ IsNum(b) THEN Num(a.n - b.n) ELSE NaN
\* a > b and a <= b: false as soon as one side is NaN or undefined
Gt(a, b)   == IsNum(a) /\ IsNum(b) /\ a.n > b.n
Le(a, b)   == IsNum(a) /\ IsNum(b) /\ a.n <= b.n
\* truthiness of a field: undefined, NaN and 0 are falsy
Truthy(v)  == IsNum(v) /\ v.n # 0
\* v ?? NaN
OrNaN(v)   == IF v = Undefined THEN NaN ELSE v

---------------------------------------------------------------------------
(* Calendar tables: the rows of the repository's data tables for the BS     *)
(* years 2075..2078.  Ashad 2075 has 32 days and Shrawan 2075 has 31, as    *)
(* the comment in addMonths says.                                           *)

FirstYear == 2075
LastYear  == 2078
TabulatedYears == FirstYear..LastYear

\* days in each of the 12 months of a BS year
DaysInMonthsMappingData ==
  [y \in TabulatedYears |->
     CASE y = 2075 -> <<31, 31, 32, 31, 31, 31, 30, 29, 30, 29, 30, 30>>
       [] y = 2076 -> <<31, 32, 31, 32, 31, 30, 30, 30, 29, 29, 30, 30>>
       [] y = 2077 -> <<31, 32, 31, 32, 31, 30, 30, 30, 29, 30, 29, 31>>
       [] y = 2078 -> <<31, 31, 31, 32, 31, 31, 30, 29, 30, 29, 30, 30>>]


\* Gregorian date of the first day of each BS year
NewYearMappingData ==
  [y \in TabulatedYears |->
     CASE y = 2075 -> [y |-> 2018, m |-> 4, d |-> 14]
       [] y = 2076 -> [y |-> 2019, m |-> 4, d |-> 14]
       [] y = 2077 -> [y |-> 2020, m |-> 4, d |-> 13]
       [] y = 2078 -> [y |-> 2021, m |-> 4, d |-> 14]]

NepaliMonthsData ==
  << "Baisakh", "Jestha", "Ashad", "Shrawn", "Bhadra", "Ashoj",
     "Kartik", "Mangshir", "Paush", "Magh", "Falgun", "Chaitra" >>

MONTHS_IN_A_YEAR == 12

---------------------------------------------------------------------------
(* The BS date object: its three private fields *)

Date(y, m, d) == [year |-> y, month |-> m, day |-> d]
UnsetDate     == Date(Undefined, Undefined, Undefined)

getYear(b)  == OrNaN(b.year)
getMonth(b) == OrNaN(b.month)
getDay(b)   == OrNaN(b.day)

\* daysInMonthMap[year][month - 1]: indexing the missing row of an
\* untabulated (or NaN) year throws; a month outside 1..12 reads undefined
getDaysInMonth(b) ==
  IF b.month = Undefined \/ b.year = Undefined THEN NaN
  ELSE IF ~(IsNum(b.year) /\ b.year.n \in TabulatedYears) THEN Thrown
  ELSE IF IsNum(b.month) /\ b.month.n \in 1..12
       THEN Num(DaysInMonthsMappingData[b.year.n][b.month.n])
       ELSE Undefined

\* isDayValid(year, month, day): 1 <= day <= daysInMonth(year, month)
isDayValid(y, m, d) ==
  /\ IsNum(y) /\ IsNum(m) /\ IsNum(d)
  /\ y.n \in TabulatedYears
  /\ m.n \in 1..12
  /\ 1 <= d.n /\ d.n <= DaysInMonthsMappingData[y.n][m.n]

\* Outcome of a mutating method: the fields it leaves and whether it threw
Done(b)   == [d |-> b, ex |-> FALSE]
Raised(b) == [d |-> b, ex |-> TRUE]

addYears(b, years) ==
  IF b.year = Undefined THEN b
  ELSE [b EXCEPT !.year = Add(b.year, Num(years))]

\* adjustYear without the clamp of the day to the target month's length
RECURSIVE adjustYearNoClamp(_, _, _)
adjustYearNoClamp(b, remainingMonths, yearsToAdd) ==
  IF Gt(remainingMonths, Num(MONTHS_IN_A_YEAR))
  THEN adjustYearNoClamp(b, Sub(remainingMonths, Num(MONTHS_IN_A_YEAR)),
                         yearsToAdd + 1)
  ELSE IF Le(remainingMonths, Num(0))
  THEN adjustYearNoClamp(b, Add(remainingMonths, Num(MONTHS_IN_A_YEAR)),
                         yearsToAdd - 1)
  ELSE LET b1 == addYears([b EXCEPT !.month = remainingMonths], yearsToAdd)
       IN IF getDaysInMonth(b1) = Thrown THEN Raised(b1) ELSE Done(b1)

RECURSIVE adjustYear(_, _, _)
adjustYear(b, remainingMonths, yearsToAdd) ==
  IF Gt(remainingMonths, Num(MONTHS_IN_A_YEAR))
  THEN adjustYear(b, Sub(remainingMonths, Num(MONTHS_IN_A_YEAR)), yearsToAdd + 1)
  ELSE IF Le(remainingMonths, Num(0))
  THEN adjustYear(b, Add(remainingMonths, Num(MONTHS_IN_A_YEAR)), yearsToAdd - 1)
  ELSE LET b1 == addYears([b EXCEPT !.month = remainingMonths], yearsToAdd)
           daysInCurrentMonth == getDaysInMonth(b1)
       IN IF daysInCurrentMonth = Thrown THEN Raised(b1)
          ELSE IF Truthy(b1.day) /\ Gt(b1.day, daysInCurrentMonth)
               THEN Done([b1 EXCEPT !.day = daysInCurrentMonth])
               ELSE Done(b1)

addMonths(b, months) ==
  IF b.month = Undefined \/ b.year = Undefined THEN Done(b)
  ELSE adjustYear(b, Add(b.month, Num(months)), 0)

RECURSIVE adjustMonth(_, _)
adjustMonth(b, remainingDays) ==
  LET daysInMonth == getDaysInMonth(b) IN
  IF daysInMonth = Thrown THEN Raised(b)
  ELSE IF Gt(remainingDays, daysInMonth)
  THEN LET r == addMonths(b, 1)
       IN IF r.ex THEN r ELSE adjustMonth(r.d, Sub(remainingDays, daysInMonth))
  ELSE IF Le(remainingDays, Num(0))
  THEN LET r == addMonths(b, -1)
       IN IF r.ex THEN r ELSE adjustMonth(r.d, Add(daysInMonth, remainingDays))
  ELSE Done([b EXCEPT !.day = remainingDays])

addDays(b, days) ==
  IF b.day = Undefined \/ b.month = Undefined THEN Done(b)
  ELSE adjustMonth(b, Add(b.day, Num(days)))

---------------------------------------------------------------------------
(* Strings are sequences of one-character strings *)

Digits == <<"0", "1", "2", "3", "4", "5", "6", "7", "8", "9">>
DigitSet == {Digits[i] : i \in 1..Len(Digits)}
\* the letters [A-Za-z] that occur in the month names and the inputs
Letters == {"A", "B", "C", "D", "F", "J", "K", "M", "P", "S", "Y", "a", "c",
            "d", "e", "g", "h", "i", "j", "k", "l", "n", "o", "r", "s", "t",
            "u", "w", "x"}

InvalidDate == <<"I", "n", "v", "a", "l", "i", "d", " ", "D", "a", "t", "e">>

RECURSIVE NatToStr(_)
NatToStr(k) ==
  IF k < 10 THEN <<Digits[k + 1]>>
  ELSE NatToStr(k \div 10) \o <<Digits[(k % 10) + 1]>>

\* `${v}` / v.toString() of a number value
NumToStr(v) ==
  IF ~IsNum(v) THEN <<"N", "a", "N">>
  ELSE IF v.n < 0 THEN <<"-">> \o NatToStr(-v.n)
  ELSE NatToStr(v.n)

\* s.padStart(2, '0')
padStart2(s) == IF Len(s) < 2 THEN <<"0">> \o s ELSE s

\* s.slice(-k)
sliceLast(s, k) == IF Len(s) <= k THEN s ELSE SubSeq(s, Len(s) - k + 1, Len(s))

\* position of the first occurrence of pat in s, 0 when there is none
indexOf(s, pat) ==
  LET hits == {i \in 1..(Len(s) - Len(pat) + 1) :
                 SubSeq(s, i, i + Len(pat) - 1) = pat}
  IN IF hits = {} THEN 0 ELSE CHOOSE i \in hits : \A j \in hits : i <= j

\* s.replace(pat, rep): the first occurrence only
replace(s, pat, rep) ==
  LET i == indexOf(s, pat)
  IN IF i = 0 THEN s
     ELSE SubSeq(s, 1, i - 1) \o rep \o SubSeq(s, i + Len(pat), Len(s))

\* toString without the padding of the day
toStringNoDayPad(b) ==
  IF b.year = Undefined \/ b.month = Undefined \/ b.day = Undefined
  THEN InvalidDate
  ELSE IF ~isDayValid(b.year, b.month, b.day) THEN InvalidDate
  ELSE NumToStr(b.year) \o <<"-">> \o padStart2(NumToStr(b.month))
         \o <<"-">> \o NumToStr(b.day)

toString(b) ==
  IF b.year = Undefined \/ b.month = Undefined \/ b.day = Undefined
  THEN InvalidDate
  ELSE IF ~isDayValid(b.year, b.month, b.day) THEN InvalidDate
  ELSE NumToStr(b.year) \o <<"-">> \o padStart2(NumToStr(b.month))
         \o <<"-">> \o padStart2(NumToStr(b.day))

MonthNamesEn ==
  << <<"B", "a", "i", "s", "a", "k", "h">>,
     <<"J", "e", "s", "t", "h", "a">>,
     <<"A", "s", "h", "a", "d">>,
     <<"S", "h", "r", "a", "w", "n">>,
     <<"B", "h", "a", "d", "r", "a">>,
     <<"A", "s", "h", "o", "j">>,
     <<"K", "a", "r", "t", "i", "k">>,
     <<"M", "a", "n", "g", "s", "h", "i", "r">>,
     <<"P", "a", "u", "s", "h">>,
     <<"M", "a", "g", "h">>,
     <<"F", "a", "l", "g", "u", "n">>,
     <<"C", "h", "a", "i", "t", "r", "a">> >>

\* generateDateFormatOrder: substitution order year, month, day
generateDateFormatOrder(dateFormat) == <<"year", "month", "day">>

formatComponent(formattedDate, component, b) ==
  LET year  == getYear(b)
      month == getMonth(b)
      day   == getDay(b)
  IN IF component = "year" /\ Truthy(year)
     THEN replace(
            replace(
              replace(formattedDate, <<"Y", "Y", "Y", "Y">>, NumToStr(year)),
              <<"Y", "Y", "Y">>, sliceLast(NumToStr(year), 3)),
            <<"Y", "Y">>, sliceLast(NumToStr(year), 2))
     ELSE IF component = "month" /\ Truthy(month)
     THEN IF month.n \in 1..Len(MonthNamesEn)
          THEN replace(
                 replace(formattedDate, <<"M", "M", "M", "M">>,
                         MonthNamesEn[month.n]),
                 <<"M", "M">>, padStart2(NumToStr(month)))
          ELSE formattedDate
     ELSE IF component = "day" /\ Truthy(day)
     THEN replace(formattedDate, <<"D", "D">>, padStart2(NumToStr(day)))
     ELSE formattedDate

format(b, dateFormat) ==
  IF toString(b) = InvalidDate THEN InvalidDate
  ELSE LET order == generateDateFormatOrder(dateFormat)
       IN formatComponent(
            formatComponent(
              formatComponent(dateFormat, order[1], b), order[2], b),
            order[3], b)

---------------------------------------------------------------------------
(* Parser *)

\* The regular expressions of DateFormats: each is a list of groups that a
\* single separator out of "-", "/", " " keeps apart
Separators == {"-", "/", " "}

DateFormats ==
  << [groups |-> <<[cls |-> "d", lo |-> 4, hi |-> 4]>>, format |-> "YYYY"],
     [groups |-> <<[cls |-> "d", lo |-> 4, hi |-> 4],
                   [cls |-> "d", lo |-> 1, hi |-> 2]>>, format |-> "YYYY-MM"],
     [groups |-> <<[cls |-> "d", lo |-> 2, hi |-> 4],
                   [cls |-> "d", lo |-> 1, hi |-> 2],
                   [cls |-> "d", lo |-> 1, hi |-> 2]>>, format |-> "YYYY-MM-DD"],
     [groups |-> <<[cls |-> "d", lo |-> 1, hi |-> 2],
                   [cls |-> "a", lo |-> 1, hi |-> 99],
                   [cls |-> "d", lo |-> 4, hi |-> 4]>>, format |-> "DD-MMMM-YYYY"],
     [groups |-> <<[cls |-> "d", lo |-> 1, hi |-> 2],
                   [cls |-> "d", lo |-> 1, hi |-> 2],
                   [cls |-> "d", lo |-> 4, hi |-> 4]>>, format |-> "DD-MM-YYYY"],
     [groups |-> <<[cls |-> "d", lo |-> 1, hi |-> 2],
                   [cls |-> "d", lo |-> 1, hi |-> 2]>>, format |-> "MM-DD"] >>

\* the pieces of s between separator characters
RECURSIVE split(_)
split(s) ==
  LET seps == {i \in 1..Len(s) : s[i] \in Separators}
  IN IF seps = {} THEN <<s>>
     ELSE LET i == CHOOSE k \in seps : \A j \in seps : k <= j
          IN <<SubSeq(s, 1, i - 1)>> \o split(SubSeq(s, i + 1, Len(s)))

groupMatches(g, tok) ==
  /\ Len(tok) >= g.lo /\ Len(tok) <= g.hi
  /\ \A i \in 1..Len(tok) :
       IF g.cls = "d" THEN tok[i] \in DigitSet ELSE tok[i] \in Letters

regexMatches(f, s) ==
  LET toks == split(s)
  IN /\ Len(toks) = Len(f.groups)
     /\ \A i \in 1..Len(toks) : groupMatches(f.groups[i], toks[i])

RECURSIVE parseInt(_)
parseInt(tok) ==
  IF Len(tok) = 0 THEN 0
  ELSE 10 * parseInt(SubSeq(tok, 1, Len(tok) - 1))
         + (CHOOSE k \in 0..9 : Digits[k + 1] = tok[Len(tok)])

monthByName(tok) ==
  LET hits == {i \in 1..Len(MonthNamesEn) : MonthNamesEn[i] = tok}
  IN IF hits = {} THEN 0 ELSE CHOOSE i \in hits : TRUE

ParseFailed == [ok |-> FALSE, date |-> UnsetDate]
Parsed(b)   == [ok |-> TRUE, date |-> b]

\* parse(dateStr): the fields the first matching format yields, or the
\* invalid marker when nothing matches or the numbers are out of range
parse(s) ==
  LET hits == {i \in 1..Len(DateFormats) : regexMatches(DateFormats[i], s)}
  IN IF hits = {} THEN ParseFailed
     ELSE
       LET f == DateFormats[CHOOSE i \in hits : \A j \in hits : i <= j].format
           t == split(s)
       IN CASE f = "YYYY" -> Parsed(Date(Num(parseInt(t[1])), Undefined, Undefined))
            [] f = "YYYY-MM" ->
                 IF parseInt(t[2]) \in 1..12
                 THEN Parsed(Date(Num(parseInt(t[1])), Num(parseInt(t[2])), Undefined))
                 ELSE ParseFailed
            [] f = "YYYY-MM-DD" ->
                 LET b == Date(Num(parseInt(t[1])), Num(parseInt(t[2])), Num(parseInt(t[3])))
                 IN IF isDayValid(b.year, b.month, b.day) THEN Parsed(b) ELSE ParseFailed
            [] f = "DD-MMMM-YYYY" ->
                 LET b == Date(Num(parseInt(t[3])), Num(monthByName(t[2])), Num(parseInt(t[1])))
                 IN IF isDayValid(b.year, b.month, b.day) THEN Parsed(b) ELSE ParseFailed
            [] f = "DD-MM-YYYY" ->
                 LET b == Date(Num(parseInt(t[3])), Num(parseInt(t[2])), Num(parseInt(t[1])))
                 IN IF isDayValid(b.year, b.month, b.day) THEN Parsed(b) ELSE ParseFailed
            [] f = "MM-DD" ->
                 IF parseInt(t[1]) \in 1..12 /\ parseInt(t[2]) \in 1..32
                 THEN Parsed(Date(Undefined, Num(parseInt(t[1])), Num(parseInt(t[2]))))
                 ELSE ParseFailed

\* new BikramSambat(dateStr) for a string
constructFromString(s) ==
  LET parsedDate == parse(s)
  IN IF ~parsedDate.ok THEN UnsetDate ELSE parsedDate.date

\* new BikramSambat(other): the fields are read through the getters
constructFromDate(other) == Date(getYear(other), getMonth(other), getDay(other))

---------------------------------------------------------------------------
(* Gregorian day arithmetic: the utils the conversions call *)

AD(y, m, d) == [y |-> y, m |-> m, d |-> d]

\* proleptic Gregorian day number of a calendar date
dayNumber(g) ==
  LET y   == IF g.m <= 2 THEN g.y - 1 ELSE g.y
      era == y \div 400
      yoe == y - era * 400
      mp  == (g.m + 9) % 12
      doy == (153 * mp + 2) \div 5 + g.d - 1
      doe == yoe * 365 + yoe \div 4 - yoe \div 100 + doy
  IN era * 146097 + doe - 719468

\* calendar date of a day number
dateOfDayNumber(z) ==
  LET z1  == z + 719468
      era == z1 \div 146097
      doe == z1 - era * 146097
      yoe == (doe - doe \div 1460 + doe \div 36524 - doe \div 146096) \div 365
      doy == doe - (365 * yoe + yoe \div 4 - yoe \div 100)
      mp  == (5 * doy + 2) \div 153
      d   == doy - (153 * mp + 2) \div 5 + 1
      m   == IF mp < 10 THEN mp + 3 ELSE mp - 9
  IN AD(yoe + era * 400 + (IF m <= 2 THEN 1 ELSE 0), m, d)

\* signed day count a - b
getDaysBetweenTwoAdDates(a, b) == dayNumber(a) - dayNumber(b)

\* the calendar date n days after g
addDaysToGregorianDate(g, n) == dateOfDayNumber(dayNumber(g) + n)

RECURSIVE sumDays(_, _)
sumDays(y, m) ==
  IF m <= 0 THEN 0 ELSE DaysInMonthsMappingData[y][m] + sumDays(y, m - 1)

\* 1-based offset of (year, month, day) from the year's new year; the day is
\* not validated; a failed table lookup throws
getDaysFromBsNewYear(y, m, d) ==
  IF ~(y \in TabulatedYears) \/ m - 1 > MONTHS_IN_A_YEAR THEN Thrown
  ELSE Num(sumDays(y, m - 1) + d)

\* the BS year a Gregorian date falls in and that year's new year date
getNewYearDateInfo(g) ==
  LET hits == {y \in TabulatedYears :
                 /\ dayNumber(NewYearMappingData[y]) <= dayNumber(g)
                 /\ dayNumber(g) < dayNumber(NewYearMappingData[y])
                                     + sumDays(y, MONTHS_IN_A_YEAR)}
  IN IF hits = {} THEN [ok |-> FALSE, bsYear |-> 0, newYearDate |-> g]
     ELSE LET y == CHOOSE y \in hits : TRUE
          IN [ok |-> TRUE, bsYear |-> y, newYearDate |-> NewYearMappingData[y]]

---------------------------------------------------------------------------
(* Conversions and month navigation *)

\* what a method returns
Ret(kind, val) == [kind |-> kind, val |-> val]
RetThis   == Ret("this", 0)
RetThrow  == Ret("throw", 0)

\* toGregorian adding the whole offset to the new year date (no "- 1")
toGregorianOffByOne(b, now) ==
  IF ~Truthy(b.year) \/ ~Truthy(b.month) \/ ~Truthy(b.day) THEN Ret("Date", now)
  ELSE LET daysFromNewYear == getDaysFromBsNewYear(b.year.n, b.month.n, b.day.n)
       IN IF daysFromNewYear = Thrown THEN RetThrow
          ELSE Ret("Date", addDaysToGregorianDate(NewYearMappingData[b.year.n],
                                                  daysFromNewYear.n))

\* instance toGregorian; now is what new Date() reads from the system clock
toGregorian(b, now) ==
  IF ~Truthy(b.year) \/ ~Truthy(b.month) \/ ~Truthy(b.day) THEN Ret("Date", now)
  ELSE LET daysFromNewYear == getDaysFromBsNewYear(b.year.n, b.month.n, b.day.n)
       IN IF daysFromNewYear = Thrown THEN RetThrow
          ELSE Ret("Date", addDaysToGregorianDate(NewYearMappingData[b.year.n],
                                                  daysFromNewYear.n - 1))

\* the argument of new BikramSambat(...): a string, an instance or nothing
construct(a) ==
  IF a.kind = "string" THEN constructFromString(a.val)
  ELSE IF a.kind = "BikramSambat" THEN constructFromDate(a.val)
  ELSE UnsetDate

staticToGregorian(a, now) == toGregorian(construct(a), now)

\* static toBikramSambat of undefined, an invalid Date or a Date
toBikramSambat(a) ==
  IF a.kind # "Date" THEN Done(UnsetDate)
  ELSE LET info == getNewYearDateInfo(a.val)
       IN IF ~info.ok THEN Raised(UnsetDate)
          ELSE LET daysFromNewYear ==
                     getDaysBetweenTwoAdDates(a.val, info.newYearDate)
                   bsDate == constructFromString(
                               NatToStr(info.bsYear)
                                 \o <<"-", "0", "1", "-", "0", "1">>)
               IN addDays(bsDate, daysFromNewYear)

\* array[i] of a 0-indexed array
arrayAt(arr, i) ==
  IF i \in 0..(Len(arr) - 1) THEN Ret("Month", arr[i + 1])
  ELSE Ret("undefined", 0)

getPreviousMonth(b) ==
  IF ~Truthy(b.month) THEN Ret("null", 0)
  ELSE LET month == IF b.month.n = 1 THEN 12 ELSE b.month.n - 1
       IN arrayAt(NepaliMonthsData, month - 1)

getNextMonth(b) ==
  IF ~Truthy(b.month) THEN Ret("null", 0)
  ELSE LET month == (b.month.n + 1) % 12
       IN arrayAt(NepaliMonthsData, month - 1)

---------------------------------------------------------------------------
(* The state machine: one BS date object and the calls made on it *)

VARIABLES
  date,    \* the fields of the object the calls act on
  prev,    \* its fields before the last call
  op,      \* the last call
  arg,     \* the integer argument of the last call (0 when it has none)
  input,   \* the non-integer argument of the last call
  result   \* what the last call returned, or that it threw

vars == <<date, prev, op, arg, input, result>>

\* bounds of the arguments the calls are made with
MaxYears  == 2
MaxMonths == 14
MaxDays   == 40
MaxDayField == 40

DateStrings ==
  { <<"2", "0", "7", "5">>,
    <<"2", "0", "7", "7", "-", "1", "2">>,
    <<"2", "0", "7", "7", "-", "1", "2", "-", "3", "1">>,
    <<"2", "0", "7", "5", "/", "0", "3", "/", "3", "2">>,
    <<"2", "0", "7", "5", "-", "0", "4", "-", "3", "2">>,
    <<"1", "2", "-", "0", "5">>,
    <<"0", "1", " ", "B", "a", "i", "s", "a", "k", "h", " ", "2", "0", "7", "6">>,
    <<"x">> }

FormatStrings ==
  { <<"Y", "Y", "Y", "Y", "-", "M", "M", "-", "D", "D">>,
    <<"D", "D", "-", "M", "M", "M", "M", "-", "Y", "Y", "Y", "Y">>,
    <<"Y", "Y", "/", "M", "M", "/", "D", "D">>,
    <<"M", "M", "-", "D", "D">> }

\* what the system clock may read when new Date() is evaluated
ClockDates == {AD(2018, 4, 14), AD(2021, 2, 28)}

\* arguments of static toBikramSambat: nothing, an invalid Date, and Dates
\* from just before the first tabulated new year to just past the last
\* tabulated year
AdInputs ==
  {Ret("undefined", 0), Ret("Invalid Date", 0)} \cup
  {Ret("Date", g) : g \in {AD(2018, 4, 13), AD(2018, 4, 14), AD(2019, 1, 1),
                           AD(2020, 2, 29), AD(2021, 4, 13), AD(2022, 4, 13),
                           AD(2022, 4, 14)}}

\* the model follows the object one untabulated year past each end of the
\* table, and a day field (which grows without limit while the year is unset)
\* up to MaxDayField
InWindow(b) ==
  /\ IsNum(b.year) => b.year.n \in (FirstYear - 1)..(LastYear + 1)
  /\ IsNum(b.day) => b.day.n <= MaxDayField

NoInput == Ret("none", 0)

Init ==
  /\ date = UnsetDate
  /\ prev = UnsetDate
  /\ op = "new()"
  /\ arg = 0
  /\ input = NoInput
  /\ result = RetThis

\* a call on the object
Step(b, o, a, i, r) ==
  /\ date' = b
  /\ prev' = date
  /\ op' = o
  /\ arg' = a
  /\ input' = i
  /\ result' = r

\* a call that creates the object: it has no earlier fields
Create(b, o, i, r) ==
  /\ date' = b
  /\ prev' = b
  /\ op' = o
  /\ arg' = 0
  /\ input' = i
  /\ result' = r

Outcome(r) == IF r.ex THEN RetThrow ELSE RetThis

\* Every call below is made once the caller has taken the result of the call
\* before it (op = "idle").

NewEmpty ==
  /\ op = "idle"
  /\ Create(UnsetDate, "new()", NoInput, RetThis)

NewFromString ==
  /\ op = "idle"
  /\ \E s \in DateStrings :
       Create(constructFromString(s), "new(string)", Ret("string", s), RetThis)

NewFromDate ==
  /\ op = "idle"
  /\ Step(constructFromDate(date), "new(BikramSambat)", 0,
          Ret("BikramSambat", date), RetThis)

AddYears ==
  /\ op = "idle"
  /\ \E n \in (-MaxYears)..MaxYears :
       /\ InWindow(addYears(date, n))
       /\ Step(addYears(date, n), "addYears", n, NoInput, RetThis)

AddMonths ==
  /\ op = "idle"
  /\ \E n \in (-MaxMonths)..MaxMonths :
       LET r == addMonths(date, n)
       IN /\ InWindow(r.d)
          /\ Step(r.d, "addMonths", n, NoInput, Outcome(r))

AddDays ==
  /\ op = "idle"
  /\ \E n \in (-MaxDays)..MaxDays :
       LET r == addDays(date, n)
       IN /\ InWindow(r.d)
          /\ Step(r.d, "addDays", n, NoInput, Outcome(r))

GetDaysInMonth ==
  /\ op = "idle"
  /\ LET v == getDaysInMonth(date)
     IN Step(date, "getDaysInMonth", 0, NoInput,
             IF v = Thrown THEN RetThrow ELSE Ret("value", v))

CallToString ==
  /\ op = "idle"
  /\ Step(date, "toString", 0, NoInput, Ret("string", toString(date)))

Format ==
  /\ op = "idle"
  /\ \E f \in FormatStrings :
       Step(date, "format", 0, Ret("string", f), Ret("string", format(date, f)))

GetNextMonth ==
  /\ op = "idle"
  /\ Step(date, "getNextMonth", 0, NoInput, getNextMonth(date))

GetPreviousMonth ==
  /\ op = "idle"
  /\ Step(date, "getPreviousMonth", 0, NoInput, getPreviousMonth(date))

ToGregorian ==
  /\ op = "idle"
  /\ \E now \in ClockDates :
       Step(date, "toGregorian", 0, NoInput, toGregorian(date, now))

StaticToGregorian ==
  /\ op = "idle"
  /\ \E now \in ClockDates :
       \E a \in {Ret("undefined", 0), Ret("BikramSambat", date)}
                  \cup {Ret("string", s) : s \in DateStrings} :
         Step(date, "BikramSambat.toGregorian", 0, a, staticToGregorian(a, now))

StaticToBikramSambat ==
  /\ op = "idle"
  /\ \E a \in AdInputs :
       LET r == toBikramSambat(a)
       IN IF r.ex
          THEN Step(date, "BikramSambat.toBikramSambat", 0, a, RetThrow)
          ELSE Create(r.d, "BikramSambat.toBikramSambat", a, RetThis)

\* BikramSambat.toBikramSambat(d.toGregorian()): the Date just returned is
\* converted back; prev stays the date that was converted.  When the
\* conversion throws, no object is returned and date stays as it is.
RoundTrip ==
  /\ op = "toGregorian"
  /\ result.kind = "Date"
  /\ LET r == toBikramSambat(result)
     IN /\ date' = IF r.ex THEN date ELSE r.d
        /\ prev' = prev
        /\ op' = "toBikramSambat(toGregorian)"
        /\ arg' = 0
        /\ input' = result
        /\ result' = Outcome(r)

\* the caller takes the result of the last call; the object is ready for the
\* next one
Return ==
  /\ op # "idle"
  /\ date' = date
  /\ prev' = date
  /\ op' = "idle"
  /\ arg' = 0
  /\ input' = NoInput
  /\ result' = RetThis

Next ==
  \/ Return
  \/ NewEmpty
  \/ NewFromString
  \/ NewFromDate
  \/ AddYears
  \/ AddMonths
  \/ AddDays
  \/ GetDaysInMonth
  \/ CallToString
  \/ Format
  \/ GetNextMonth
  \/ GetPreviousMonth
  \/ ToGregorian
  \/ StaticToGregorian
  \/ StaticToBikramSambat
  \/ RoundTrip

Spec == Init /\ [][Next]_vars

---------------------------------------------------------------------------
(* Vocabulary of the properties *)

\* some field is unset
IsUnset(b) == b.year = Undefined \/ b.month = Undefined \/ b.day = Undefined

\* all three fields are set and the day exists in that month of that year
IsValid(b) == isDayValid(b.year, b.month, b.day)

IsTabulated(v) == IsNum(v) /\ v.n \in TabulatedYears

Mutators == {"addYears", "addMonths", "addDays"}

RECURSIVE daysBeforeYear(_)
daysBeforeYear(y) ==
  IF y <= FirstYear THEN 0
  ELSE sumDays(y - 1, MONTHS_IN_A_YEAR) + daysBeforeYear(y - 1)

\* day count of a valid date from the first tabulated new year
dayCount(b) ==
  daysBeforeYear(b.year.n) + sumDays(b.year.n, b.month.n - 1) + b.day.n

IsDigit(c) == c \in DigitSet

\* "YYYY-MM-DD": four digits, two digits, two digits, with dashes between
WellFormed(s) ==
  /\ Len(s) = 10
  /\ s[5] = "-" /\ s[8] = "-"
  /\ \A i \in {1, 2, 3, 4, 6, 7, 9, 10} : IsDigit(s[i])

---------------------------------------------------------------------------
(* Properties *)

\* C1: converting a valid BS date of a tabulated year to Gregorian and the
\* result back with the static toBikramSambat gives the date it started from.
C1_RoundTrip ==
  (op = "toBikramSambat(toGregorian)" /\ IsValid(prev))
    => (result.kind = "this" /\ date = prev)

\* the last day of the 366-day year 2077 has made the round trip
C1_Witness ==
  /\ op = "toBikramSambat(toGregorian)"
  /\ prev = Date(Num(2077), Num(12), Num(31))
  /\ input.val = AD(2021, 4, 13)
  /\ date = prev

\* C2: for a valid date, addDays(n) followed by addDays(-n) gives the date
\* back, whenever neither call leaves the tabulated years.
C2_AddDaysInverse ==
  (op = "addDays" /\ IsValid(prev) /\ result.kind = "this"
     /\ ~addDays(date, -arg).ex)
    => addDays(date, -arg).d = prev

\* C3: addYears, addMonths and addDays on a valid date leave a valid date
\* whenever they end inside the tabulated years.
C3_StaysValid ==
  (op \in Mutators /\ IsValid(prev) /\ result.kind = "this"
     /\ IsTabulated(date.year))
    => IsValid(date)

\* C4: toGregorian, instance or static, on an unset date ends in an error and
\* never returns a Date.
C4_UnsetToGregorianFails ==
  /\ (op = "toGregorian" /\ IsUnset(prev)) => result.kind = "throw"
  /\ (op = "BikramSambat.toGregorian"
        /\ IsUnset(IF input.kind = "BikramSambat" THEN input.val
                   ELSE construct(input)))
       => result.kind = "throw"

\* C5: getNextMonth of a date whose month m is set returns the descriptor of
\* month (m mod 12) + 1 and leaves the date as it was.
C5_NextMonthCyclic ==
  (op = "getNextMonth" /\ IsNum(prev.month) /\ prev.month.n \in 1..12)
    => /\ result.kind = "Month"
       /\ result.val = NepaliMonthsData[(prev.month.n % 12) + 1]
       /\ date = prev

\* C6: addYears, addMonths and addDays on a date with any field unset return
\* normally and change no field.
C6_UnsetNoOp ==
  (op \in Mutators /\ IsUnset(prev))
    => (result.kind = "this" /\ date = prev)

\* C7: a date constructed from another date has the fields of the original,
\* and getDaysInMonth, toString, addYears, addMonths and addDays give on it
\* what they give on the original.
C7_CopyEquivalent ==
  op = "new(BikramSambat)"
    => /\ date = prev
       /\ getDaysInMonth(date) = getDaysInMonth(prev)
       /\ toString(date) = toString(prev)
       /\ \A n \in (-MaxYears)..MaxYears :
            addYears(date, n) = addYears(prev, n)
       /\ \A n \in {-1, 1} :
            /\ addMonths(date, n) = addMonths(prev, n)
            /\ addDays(date, n) = addDays(prev, n)

\* C8: toString returns "Invalid Date" exactly when a field is unset or the
\* day is not valid for the year and month, and otherwise the well-formed
\* zero-padded "YYYY-MM-DD" of the fields; format returns "Invalid Date"
\* exactly when toString does.
C8_ToStringWellFormed ==
  /\ op = "toString" =>
       /\ (result.val = InvalidDate) <=> (IsUnset(date) \/ ~IsValid(date))
       /\ result.val # InvalidDate =>
            /\ WellFormed(result.val)
            /\ parseInt(SubSeq(result.val, 1, 4)) = date.year.n
            /\ parseInt(SubSeq(result.val, 6, 7)) = date.month.n
            /\ parseInt(SubSeq(result.val, 9, 10)) = date.day.n
  /\ op = "format" =>
       ((result.val = InvalidDate) <=> (toString(date) = InvalidDate))

\* a date with a one-digit month and day has been printed
C8_Witness ==
  /\ op = "toString"
  /\ date = Date(Num(2075), Num(3), Num(5))
  /\ result.val = <<"2", "0", "7", "5", "-", "0", "3", "-", "0", "5">>

\* C9: addDays(n) on a valid date, ending inside the tabulated years, leaves
\* the valid date exactly n days away.
C9_AddDaysExact ==
  (op = "addDays" /\ IsValid(prev) /\ result.kind = "this")
    => (IsValid(date) /\ dayCount(date) = dayCount(prev) + arg)

\* C10: addMonths(n) on a valid date (y, m, d) whose target year is tabulated
\* ends with 12 * year + (month - 1) = 12 * y + (m - 1) + n, month in 1..12
\* and day = min(d, daysInMonth(year, month)).
C10_AddMonths ==
  (op = "addMonths" /\ IsValid(prev))
    => LET total == 12 * prev.year.n + (prev.month.n - 1) + arg
           y     == total \div 12
           m     == (total % 12) + 1
       IN y \in TabulatedYears =>
            LET len == DaysInMonthsMappingData[y][m]
            IN /\ result.kind = "this"
               /\ date = Date(Num(y), Num(m),
                              Num(IF prev.day.n > len THEN len ELSE prev.day.n))

\* 2075-03-32 + 1 month has been clamped to 2075-04-31
C10_Witness ==
  /\ op = "addMonths"
  /\ prev = Date(Num(2075), Num(3), Num(32))
  /\ arg = 1
  /\ date = Date(Num(2075), Num(4), Num(31))

=============================================================================
